---- MODULE Spec2Model ----
(***************************************************************************)
(* GLM loss-and-gradient core (cpp/src/glm/qn/glm_base.cuh).               *)
(*                                                                         *)
(* The element type T is modelled by exact rationals <<num, den>> (lowest  *)
(* terms, den > 0): rounding of the floating point type is abstracted.     *)
(* Device buffers are flat sequences; a SimpleMat is a view (offset, m, n, *)
(* storage order) over such a buffer.  Kernels are launched on the stream  *)
(* of the call and run in launch order, asynchronously to the host thread. *)
(***************************************************************************)
EXTENDS Integers, Sequences, FiniteSets, TLC

\* Largest magnitude of an input element (X, W, prior buffer contents).
MaxVal == 2
\* Number of bound-objective calls a behaviour may start.
MaxCalls == 2
\* Number of direct linearFwd / getLossAndDZ / linearBwd applications.
MaxOps == 2

(***************************************************************************)
(* Exact arithmetic for T.                                                 *)
(***************************************************************************)
RECURSIVE GCD(_, _)
GCD(a, b) == IF b = 0 THEN a ELSE GCD(b, a % b)

Abs(a) == IF a < 0 THEN -a ELSE a

Norm(n, d) ==
  LET g == GCD(Abs(n), Abs(d))
      s == IF d < 0 THEN -1 ELSE 1
  IN  << (s * n) \div g, (s * d) \div g >>

RInt(k) == << k, 1 >>
RAdd(a, b) == Norm(a[1] * b[2] + b[1] * a[2], a[2] * b[2])
RSub(a, b) == Norm(a[1] * b[2] - b[1] * a[2], a[2] * b[2])
RMul(a, b) == Norm(a[1] * b[1], a[2] * b[2])
\* T(1.0 / k)
ROneOver(k) == Norm(1, k)

RECURSIVE RSum(_)
RSum(s) == IF s = << >> THEN RInt(0) ELSE RAdd(s[1], RSum(Tail(s)))

(***************************************************************************)
(* SimpleMat / SimpleVec views (simple_mat.cuh).  Indices are 0-based as   *)
(* in the source; buffers are 1-based sequences.                           *)
(***************************************************************************)
SimpleMat(off, m, n, ord) == [off |-> off, m |-> m, n |-> n, ord |-> ord]

\* position in the buffer of element (i, j) of view v
Pos(v, i, j) ==
  v.off + (IF v.ord = "COL_MAJOR" THEN i + j * v.m ELSE j + i * v.n) + 1

MatGet(buf, v, i, j) == buf[Pos(v, i, j)]

\* col_slice(mat, out, c_from, c_to): columns [c_from, c_to) of a column-major matrix
col_slice(v, c_from, c_to) ==
  SimpleMat(v.off + c_from * v.m, v.m, c_to - c_from, "COL_MAJOR")

\* col_ref(mat, out, c): column c of a column-major matrix, as a vector of length m
col_ref(v, c) == SimpleMat(v.off + c * v.m, v.m, 1, "COL_MAJOR")

\* element (i, j) of op(A), op = transpose or identity
OpGet(buf, v, trans, i, j) == IF trans THEN MatGet(buf, v, j, i) ELSE MatGet(buf, v, i, j)

\* C.assign_gemm(handle, alpha, A, transA, B, transB, beta, stream):
\*   C <- alpha * op(A) * op(B) + beta * C      (inner extent kk)
assign_gemm(Cbuf, Cv, alpha, Abuf, Av, transA, Bbuf, Bv, transB, beta) ==
  LET kk == IF transA THEN Av.m ELSE Av.n
      Cell(i, j) ==
        RAdd(RMul(alpha,
                  RSum([k \in 1..kk |->
                          RMul(OpGet(Abuf, Av, transA, i, k - 1),
                               OpGet(Bbuf, Bv, transB, k - 1, j))])),
             RMul(RInt(beta), MatGet(Cbuf, Cv, i, j)))
      \* offset inside the view of buffer position idx, and its row and column
      K(idx) == idx - 1 - Cv.off
      Row(idx) == IF Cv.ord = "COL_MAJOR" THEN K(idx) % Cv.m ELSE K(idx) \div Cv.n
      Col(idx) == IF Cv.ord = "COL_MAJOR" THEN K(idx) \div Cv.m ELSE K(idx) % Cv.n
  IN  [idx \in 1..Len(Cbuf) |->
         IF K(idx) >= 0 /\ K(idx) < Cv.m * Cv.n THEN Cell(Row(idx), Col(idx)) ELSE Cbuf[idx]]

(***************************************************************************)
(* The loss capability bound to the objective: squared error.              *)
(***************************************************************************)
lz(yv, z) == RMul(<< 1, 2 >>, RMul(RSub(z, yv), RSub(z, yv)))
dlz(yv, z) == RSub(z, yv)

(***************************************************************************)
(* The __device__ lambdas handed to the primitives, as closures: the name  *)
(* of the lambda and the value it captured.                                *)
(***************************************************************************)
Lambda(f, cap) == [f |-> f, cap |-> cap]

CallLambda(op, a, b) ==
  CASE op.f = "set_bias" -> b                      \* [](const T z, const T b) { return b; }
    [] op.f = "f_l"      -> RMul(lz(a, b), op.cap) \* loss->lz(y, z) * invN
    [] op.f = "f_dl"     -> dlz(a, b)              \* loss->dlz(y, z)

(***************************************************************************)
(* Backend primitives used by the core.                                    *)
(***************************************************************************)
\* raft::linalg::matrixVectorOp(out, matrix, vec, D, N, rowMajor, bcastAlongRows, op):
\* out[idx] = op(matrix[idx], vec[vIdx]) over the D * N elements of the matrix;
\* vec is read from vbuf starting at offset voff.
matrixVectorOp(matrix, vbuf, voff, Dn, Nn, rowMajor, bcastAlongRows, op) ==
  LET vIdx(idx) ==
        IF rowMajor /\ bcastAlongRows THEN idx % Dn
        ELSE IF ~rowMajor /\ ~bcastAlongRows THEN idx % Nn
        ELSE IF rowMajor /\ ~bcastAlongRows THEN idx \div Dn
        ELSE idx \div Nn
  IN  [p \in 1..Len(matrix) |->
         IF p <= Dn * Nn THEN CallLambda(op, matrix[p], vbuf[voff + vIdx(p - 1) + 1])
         ELSE matrix[p]]

\* raft::stats::mean(mu, data, D, N, sample, rowMajor): mean of each of the D
\* columns of the N x D matrix data
mean(data, Dn, Nn, sample, rowMajor) ==
  [j \in 1..Dn |->
     RMul(RSum([i \in 1..Nn |->
                  data[IF rowMajor THEN (i - 1) * Dn + j ELSE (j - 1) * Nn + i]]),
          ROneOver(IF sample THEN Nn - 1 ELSE Nn))]

\* raft::linalg::mapThenSumReduce(out, len, map, stream, in1, in2)
mapThenSumReduce(len, map, in1, in2) ==
  RSum([i \in 1..len |-> CallLambda(map, in1[i], in2[i])])

\* raft::linalg::binaryOp(out, in1, in2, len, op, stream), out aliasing in2's buffer
binaryOp(outbuf, in1, in2, len, op) ==
  [p \in 1..Len(outbuf) |-> IF p <= len THEN CallLambda(op, in1[p], in2[p]) ELSE outbuf[p]]

(***************************************************************************)
(* GLMDims and the views of one evaluation.                                *)
(***************************************************************************)
GLMDims(Cc, Dd, fit) ==
  [C |-> Cc, D |-> Dd, fit_intercept |-> fit,
   dims |-> Dd + (IF fit THEN 1 ELSE 0),
   n_param |-> (Dd + (IF fit THEN 1 ELSE 0)) * Cc]

\* GLMWithData: X(Xptr, N, obj->D, ordX), y(yptr, N), Z(Zptr, obj->C, N)
Xview(g, Nn, ord) == SimpleMat(0, Nn, g.D, ord)
Zview(g, Nn) == SimpleMat(0, g.C, Nn, "COL_MAJOR")
\* operator(): Mat W(wFlat.data, C, dims); Mat G(gradFlat.data, C, dims)
Wview(g) == SimpleMat(0, g.C, g.dims, "COL_MAJOR")
Gview(g) == SimpleMat(0, g.C, g.dims, "COL_MAJOR")

(***************************************************************************)
(* Kernels.  A launch is a descriptor put on the stream; its effect on the *)
(* device memory m = [Z, X, y, W, G, loss] happens when the stream runs it.*)
(***************************************************************************)
Kernel(op, bias, beta) == [op |-> op, bias |-> bias, beta |-> beta, src |-> 0]

\* linearFwd, has_bias branch: Z <- b (broadcast)
K_fwd_set_bias(m, Xv, Wv, Zv) ==
  LET set_bias == Lambda("set_bias", RInt(0))
      bias == col_ref(Wv, Xv.n)
  IN  [m EXCEPT !.Z = matrixVectorOp(m.Z, m.W, bias.off, Zv.n, Zv.m, FALSE, FALSE, set_bias)]

\* linearFwd: Z <- W * X^T + beta * Z  (W without its bias column if has_bias)
K_fwd_gemm(m, k, Xv, Wv, Zv) ==
  LET weights == IF k.bias THEN col_slice(Wv, 0, Xv.n) ELSE Wv
  IN  [m EXCEPT !.Z = assign_gemm(m.Z, Zv, RInt(1), m.W, weights, FALSE, m.X, Xv, TRUE, k.beta)]

\* getLossAndDZ: loss_val <- sum_i lz(y_i, z_i) * invN
K_loss_reduce(m, ylen) ==
  LET invN == ROneOver(ylen)
      f_l == Lambda("f_l", invN)
  IN  [m EXCEPT !.loss = mapThenSumReduce(ylen, f_l, m.y, m.Z)]

\* variant: binaryOp given y.data as its output
K_loss_dlz_intoY(m, ylen) ==
  LET f_dl == Lambda("f_dl", RInt(0))
  IN  [m EXCEPT !.y = binaryOp(m.y, m.y, m.Z, ylen, f_dl)]

\* getLossAndDZ: Z <- dlz(y, Z), in place
K_loss_dlz(m, ylen) ==
  LET f_dl == Lambda("f_dl", RInt(0))
  IN  [m EXCEPT !.Z = binaryOp(m.Z, m.y, m.Z, ylen, f_dl)]

\* variant: alpha = 1, the 1 / X.m scaling left out
K_bwd_gemm_unscaled(m, k, Xv, Gv, Zv) ==
  LET Gweights == IF k.bias THEN col_slice(Gv, 0, Xv.n) ELSE Gv
  IN  [m EXCEPT !.G = assign_gemm(m.G, Gweights, RInt(1), m.Z, Zv, FALSE,
                                  m.X, Xv, FALSE, k.beta)]

\* linearBwd: G <- (1 / X.m) * dZ * X + beta * G  (G without its bias column if has_bias)
K_bwd_gemm(m, k, Xv, Gv, Zv) ==
  LET Gweights == IF k.bias THEN col_slice(Gv, 0, Xv.n) ELSE Gv
  IN  [m EXCEPT !.G = assign_gemm(m.G, Gweights, ROneOver(Xv.m), m.Z, Zv, FALSE,
                                  m.X, Xv, FALSE, k.beta)]

\* variant: the mean added to what the bias column held
K_bwd_mean_accum(m, Xv, Gv, Zv) ==
  LET Gbias == col_ref(Gv, Xv.n)
      mu == mean(m.Z, Zv.m, Zv.n, FALSE, TRUE)
  IN  [m EXCEPT !.G = [p \in 1..Len(m.G) |->
                         IF p > Gbias.off /\ p <= Gbias.off + Gbias.m
                         THEN RAdd(m.G[p], mu[p - Gbias.off]) ELSE m.G[p]]]

\* linearBwd, has_bias branch: Gbias <- mean(dZ, 1)
K_bwd_mean(m, Xv, Gv, Zv) ==
  LET Gbias == col_ref(Gv, Xv.n)
      mu == mean(m.Z, Zv.m, Zv.n, FALSE, TRUE)
  IN  [m EXCEPT !.G = [p \in 1..Len(m.G) |->
                         IF p > Gbias.off /\ p <= Gbias.off + Gbias.m
                         THEN mu[p - Gbias.off] ELSE m.G[p]]]

\* variant: the bias broadcast left out, the product accumulated onto whatever Z held
linearFwd_noBroadcast(Xv, Wv) ==
  LET has_bias == Xv.n # Wv.n
  IN  IF has_bias
      THEN << Kernel("fwd_gemm", TRUE, 1) >>
      ELSE << Kernel("fwd_gemm", FALSE, 0) >>

\* the kernels launched by linearFwd(handle, Z, X, W, stream)
linearFwd(Xv, Wv) ==
  LET has_bias == Xv.n # Wv.n
  IN  IF has_bias
      THEN << Kernel("fwd_set_bias", TRUE, 0), Kernel("fwd_gemm", TRUE, 1) >>
      ELSE << Kernel("fwd_gemm", FALSE, 0) >>

\* variant: beta = 0 whatever setZero says
linearBwd_alwaysZero(Gv, Xv, setZero) ==
  LET has_bias == Xv.n # Gv.n
  IN  IF has_bias
      THEN << Kernel("bwd_gemm", TRUE, 0), Kernel("bwd_mean", TRUE, 0) >>
      ELSE << Kernel("bwd_gemm", FALSE, 0) >>

\* the kernels launched by linearBwd(handle, G, X, dZ, setZero, stream)
linearBwd(Gv, Xv, setZero) ==
  LET has_bias == Xv.n # Gv.n
      beta == IF setZero THEN 0 ELSE 1
  IN  IF has_bias
      THEN << Kernel("bwd_gemm", TRUE, beta), Kernel("bwd_mean", TRUE, 0) >>
      ELSE << Kernel("bwd_gemm", FALSE, beta) >>

\* variant: the derivative written before the reduction reads Z
getLossAndDZ_dzFirst == << Kernel("loss_dlz", FALSE, 0), Kernel("loss_reduce", FALSE, 0) >>

\* the kernels launched by GLMBase::getLossAndDZ(loss_val, Z, y, stream)
getLossAndDZ == << Kernel("loss_reduce", FALSE, 0), Kernel("loss_dlz", FALSE, 0) >>

\* variant: backward launched before the loss pass
loss_grad_bwdBeforeLoss(Gv, Wv, Xv, initGradZero) ==
  linearFwd(Xv, Wv) \o linearBwd(Gv, Xv, initGradZero) \o getLossAndDZ

\* the kernels launched by GLMBase::loss_grad(loss_val, G, W, Xb, yb, Zb, stream, initGradZero)
loss_grad(Gv, Wv, Xv, initGradZero) ==
  linearFwd(Xv, Wv) \o getLossAndDZ \o linearBwd(Gv, Xv, initGradZero)

\* effect of one kernel of an evaluation with dimensions g over N samples
KernelEffect(k, m, g, Nn, ord) ==
  LET Xv == Xview(g, Nn, ord)
      Zv == Zview(g, Nn)
  IN  CASE k.op = "fwd_set_bias" -> K_fwd_set_bias(m, Xv, Wview(g), Zv)
        [] k.op = "fwd_gemm"     -> K_fwd_gemm(m, k, Xv, Wview(g), Zv)
        [] k.op = "loss_reduce"  -> K_loss_reduce(m, Nn)
        [] k.op = "loss_dlz"     -> K_loss_dlz(m, Nn)
        [] k.op = "bwd_gemm"     -> K_bwd_gemm(m, k, Xv, Gview(g), Zv)
        [] k.op = "bwd_mean"     -> K_bwd_mean(m, Xv, Gview(g), Zv)
        [] OTHER                 -> m

\* a stream drained in launch order
RECURSIVE RunStream(_, _, _, _, _)
RunStream(ks, m, g, Nn, ord) ==
  IF ks = << >> THEN m
  ELSE RunStream(Tail(ks), KernelEffect(Head(ks), m, g, Nn, ord), g, Nn, ord)

(***************************************************************************)
(* State.                                                                  *)
(***************************************************************************)
VARIABLES
  glm,        \* GLMDims of the objective (C, D, fit_intercept, dims, n_param)
  N,          \* number of samples of the bound dataset
  ordX,       \* storage order of X
  X, y, Z,    \* device buffers bound by GLMWithData
  lossVal,    \* GLMWithData::lossVal, a view [data, len]; data 0 is the null pointer
  wFlat,      \* per call slot: the flat weight vector passed to operator()
  gradFlat,   \* per call slot: the flat gradient vector passed to operator()
  dev_scalar, \* per call slot: the device scalar passed to operator()
  loss_host,  \* per call slot: the local T loss_host of operator()
  result,     \* per call slot: the value the last call returned
  pc,         \* per call slot: position of the host thread inside operator()
  stream,     \* per call slot: kernels launched on the call's stream, not yet run
  hostLog,    \* per call slot: API calls the host made in the current call
  devLog,     \* per call slot: kernels of the current call the device has run
  callId,     \* per call slot: serial number of the current call (0: none yet)
  calls,      \* number of calls started
  zWriter,    \* serial number of the call whose kernel last wrote Z (0: none)
  zPhase,     \* what Z holds: "prior", "bias", "preact" or "dZ"
  overlapped, \* some call started while another one was in flight
  crossRead,  \* a loss or backward kernel read Z last written by another call
  ops         \* direct applications made so far, each with its pre-state

shapeVars == << glm, N, ordX >>
histVars == << hostLog, devLog, callId, calls, zWriter, zPhase, overlapped, crossRead >>
vars == << glm, N, ordX, X, y, Z, lossVal, wFlat, gradFlat, dev_scalar, loss_host,
           result, pc, stream, hostLog, devLog, callId, calls, zWriter, zPhase,
           overlapped, crossRead, ops >>

\* call slots: the host threads that may call the bound objective, each with its
\* own stream, weight vector, gradient vector and device scalar
Evals == {1, 2}

\* input elements
Vals == { RInt(v) : v \in 0..MaxVal }
XVals == { RInt(v) : v \in 1..MaxVal }
YVals == { RInt(0), RInt(1) }
\* contents a buffer may hold before the core first writes it
ZeroVec(len) == [i \in 1..len |-> RInt(0)]
PriorFill(len, p) == [i \in 1..len |-> RInt((p * i) % (MaxVal + 1))]
\* an uninitialised host scalar, and the values a read of it may produce
Uninit == << 0, 0 >>
Garbage == { RInt(-1), RInt(0) }

\* (C, N, D) of the problems the linear pair and the loss driver are applied to directly
Shapes == { << 1, 2, 1 >>, << 2, 1, 1 >>, << 1, 2, 2 >> }
\* one more, with both extents of Z above 1 and different, for linearFwd
FwdShapes == Shapes \cup { << 2, 3, 1 >> }
Orders == { "COL_MAJOR", "ROW_MAJOR" }

Weights == [1..glm.n_param -> Vals]

InitCommon ==
  /\ lossVal = [data |-> 0, len |-> 0]
  /\ dev_scalar = [e \in Evals |-> RInt(-1)]
  /\ loss_host = [e \in Evals |-> Uninit]
  /\ result = [e \in Evals |-> RInt(-1)]
  /\ pc = [e \in Evals |-> "idle"]
  /\ stream = [e \in Evals |-> << >>]
  /\ hostLog = [e \in Evals |-> << >>]
  /\ devLog = [e \in Evals |-> << >>]
  /\ callId = [e \in Evals |-> 0]
  /\ calls = 0
  /\ zWriter = 0
  /\ zPhase = "prior"
  /\ overlapped = FALSE
  /\ crossRead = FALSE
  /\ ops = << >>

\* the datasets (X, y) a bound objective is constructed over: N = 2, D = 1
Datasets ==
  { [X |-> << RInt(1), RInt(2) >>, y |-> << RInt(0), RInt(1) >>],
    [X |-> << RInt(2), RInt(1) >>, y |-> << RInt(1), RInt(1) >>],
    [X |-> << RInt(1), RInt(1) >>, y |-> << RInt(1), RInt(0) >>] }

\* a bound objective with the default getLossAndDZ (C = 1) over two samples
Init ==
  /\ \E fit \in BOOLEAN : glm = GLMDims(1, 1, fit)
  /\ N = 2
  /\ ordX = "COL_MAJOR"
  /\ \E ds \in Datasets : X = ds.X /\ y = ds.y
  /\ \E p \in {0, 1} :
       /\ Z = PriorFill(glm.C * N, p)
       /\ gradFlat = [e \in Evals |-> PriorFill(glm.n_param, p)]
  /\ wFlat = [e \in Evals |-> ZeroVec(glm.n_param)]
  /\ InitCommon

(***************************************************************************)
(* GLMWithData::operator() on call slot e, and the device.                 *)
(***************************************************************************)
Mem(e) == [Z |-> Z, X |-> X, y |-> y, W |-> wFlat[e], G |-> gradFlat[e], loss |-> dev_scalar[e]]

InFlight(e) == pc[e] # "idle"

\* lines 166-168: the views W and G, then objective->loss_grad(dev_scalar, G, W, X, y, Z, stream)
Call(e, w) ==
  /\ pc[e] = "idle"
  /\ calls < MaxCalls
  /\ LET ks == loss_grad(Gview(glm), Wview(glm), Xview(glm, N, ordX), TRUE)
     IN  /\ stream' = [stream EXCEPT ![e] = stream[e] \o ks]
         /\ hostLog' = [hostLog EXCEPT ![e] = [i \in 1..Len(ks) |-> ks[i].op]]
  /\ wFlat' = [wFlat EXCEPT ![e] = w]
  /\ pc' = [pc EXCEPT ![e] = "reset"]
  /\ devLog' = [devLog EXCEPT ![e] = << >>]
  /\ calls' = calls + 1
  /\ callId' = [callId EXCEPT ![e] = calls + 1]
  /\ overlapped' = (overlapped \/ \E f \in Evals \ {e} : InFlight(f))
  /\ UNCHANGED << shapeVars, X, y, Z, lossVal, gradFlat, dev_scalar, loss_host, result,
                  zWriter, zPhase, crossRead, ops >>

\* a call made by a caller that keeps to one evaluation in flight per scratch buffer
SeqCall(e, w) ==
  /\ \A f \in Evals : ~InFlight(f)
  /\ Call(e, w)

\* lines 169-170: lossVal.reset(dev_scalar, 1); T loss_host;
ResetLossVal(e) ==
  /\ pc[e] = "reset"
  /\ lossVal' = [data |-> e, len |-> 1]
  /\ loss_host' = [loss_host EXCEPT ![e] = Uninit]
  /\ pc' = [pc EXCEPT ![e] = "copy"]
  /\ UNCHANGED << shapeVars, X, y, Z, wFlat, gradFlat, dev_scalar, result, stream,
                  histVars, ops >>

\* variant: the device scalar read at once, not in stream order
UpdateHost_eager(e) ==
  /\ pc[e] = "copy"
  /\ lossVal.data # 0
  /\ loss_host' = [loss_host EXCEPT ![e] = dev_scalar[lossVal.data]]
  /\ hostLog' = [hostLog EXCEPT ![e] = Append(hostLog[e], "update_host")]
  /\ pc' = [pc EXCEPT ![e] = "sync"]
  /\ UNCHANGED << shapeVars, X, y, Z, lossVal, wFlat, gradFlat, dev_scalar, stream,
                  result, devLog, callId, calls, zWriter, zPhase, overlapped, crossRead, ops >>

\* variant: a barrier first, then the copy
UpdateHost_synced(e) ==
  /\ pc[e] = "copy"
  /\ stream[e] = << >>
  /\ stream' = [stream EXCEPT ![e] =
                  << [op |-> "update_host", bias |-> FALSE, beta |-> 0, src |-> lossVal.data] >>]
  /\ hostLog' = [hostLog EXCEPT ![e] = hostLog[e] \o << "cudaStreamSynchronize", "update_host" >>]
  /\ pc' = [pc EXCEPT ![e] = "sync"]
  /\ UNCHANGED << shapeVars, X, y, Z, lossVal, wFlat, gradFlat, dev_scalar, loss_host,
                  result, devLog, callId, calls, zWriter, zPhase, overlapped, crossRead, ops >>

\* line 171: raft::update_host(&loss_host, lossVal.data, 1, stream)
UpdateHost(e) ==
  /\ pc[e] = "copy"
  /\ stream' = [stream EXCEPT ![e] =
                  Append(stream[e], [op |-> "update_host", bias |-> FALSE, beta |-> 0,
                                     src |-> lossVal.data])]
  /\ hostLog' = [hostLog EXCEPT ![e] = Append(hostLog[e], "update_host")]
  /\ pc' = [pc EXCEPT ![e] = "sync"]
  /\ UNCHANGED << shapeVars, X, y, Z, lossVal, wFlat, gradFlat, dev_scalar, loss_host,
                  result, devLog, callId, calls, zWriter, zPhase, overlapped, crossRead, ops >>

\* variant: the barrier does not wait for the stream
StreamSynchronize_noWait(e) ==
  /\ pc[e] = "sync"
  /\ hostLog' = [hostLog EXCEPT ![e] = Append(hostLog[e], "cudaStreamSynchronize")]
  /\ pc' = [pc EXCEPT ![e] = "ret"]
  /\ UNCHANGED << shapeVars, X, y, Z, lossVal, wFlat, gradFlat, dev_scalar, loss_host,
                  result, stream, devLog, callId, calls, zWriter, zPhase, overlapped,
                  crossRead, ops >>

\* line 172: CUDA_CHECK(cudaStreamSynchronize(stream)) returns once the stream is drained
StreamSynchronize(e) ==
  /\ pc[e] = "sync"
  /\ stream[e] = << >>
  /\ hostLog' = [hostLog EXCEPT ![e] = Append(hostLog[e], "cudaStreamSynchronize")]
  /\ pc' = [pc EXCEPT ![e] = "ret"]
  /\ UNCHANGED << shapeVars, X, y, Z, lossVal, wFlat, gradFlat, dev_scalar, loss_host,
                  result, stream, devLog, callId, calls, zWriter, zPhase, overlapped,
                  crossRead, ops >>

\* line 173: return loss_host
Return(e) ==
  /\ pc[e] = "ret"
  /\ \E v \in (IF loss_host[e] = Uninit THEN Garbage ELSE {loss_host[e]}) :
       result' = [result EXCEPT ![e] = v]
  /\ hostLog' = [hostLog EXCEPT ![e] = Append(hostLog[e], "return")]
  /\ pc' = [pc EXCEPT ![e] = "idle"]
  /\ UNCHANGED << shapeVars, X, y, Z, lossVal, wFlat, gradFlat, dev_scalar, loss_host,
                  stream, devLog, callId, calls, zWriter, zPhase, overlapped, crossRead, ops >>

WritesZ(k) == k.op \in {"fwd_set_bias", "fwd_gemm", "loss_dlz"}
ConsumesZ(k) == k.op \in {"loss_reduce", "loss_dlz", "bwd_gemm", "bwd_mean"}
PhaseAfter(k, ph) ==
  CASE k.op = "fwd_set_bias" -> "bias"
    [] k.op = "fwd_gemm"     -> "preact"
    [] k.op = "loss_dlz"     -> "dZ"
    [] OTHER                 -> ph

\* the device runs the oldest kernel of the stream of call slot e
ExecKernel(e) ==
  /\ stream[e] # << >>
  /\ \E k \in { Head(stream[e]) } : \E m \in { KernelEffect(k, Mem(e), glm, N, ordX) } :
         /\ Z' = m.Z
         /\ X' = m.X
         /\ y' = m.y
         /\ wFlat' = [wFlat EXCEPT ![e] = m.W]
         /\ gradFlat' = [gradFlat EXCEPT ![e] = m.G]
         /\ dev_scalar' = [dev_scalar EXCEPT ![e] = m.loss]
         /\ loss_host' = IF k.op = "update_host"
                         THEN [loss_host EXCEPT ![e] = dev_scalar[k.src]]
                         ELSE loss_host
         /\ devLog' = [devLog EXCEPT ![e] = Append(devLog[e], k.op)]
         /\ zWriter' = IF WritesZ(k) THEN callId[e] ELSE zWriter
         /\ zPhase' = PhaseAfter(k, zPhase)
         /\ crossRead' = (crossRead \/ (ConsumesZ(k) /\ zWriter # callId[e]))
  /\ stream' = [stream EXCEPT ![e] = Tail(stream[e])]
  /\ UNCHANGED << shapeVars, lossVal, result, pc, hostLog, callId, calls, overlapped, ops >>

Next ==
  \/ \E w \in Weights : SeqCall(1, w)
  \/ \E e \in Evals : ResetLossVal(e)
  \/ \E e \in Evals : UpdateHost(e)
  \/ \E e \in Evals : StreamSynchronize(e)
  \/ \E e \in Evals : Return(e)
  \/ \E e \in Evals : ExecKernel(e)

Spec == Init /\ [][Next]_vars

(***************************************************************************)
(* Two host threads calling the same bound objective, each on its own      *)
(* stream: nothing in operator() or loss_grad makes a call wait for        *)
(* another.                                                                *)
(***************************************************************************)
ConcWeights == { [i \in 1..glm.n_param |-> RInt(0)], [i \in 1..glm.n_param |-> RInt((i * MaxVal) % (MaxVal + 1))] }

InitConc ==
  /\ glm = GLMDims(1, 1, TRUE)
  /\ N = 2
  /\ ordX = "COL_MAJOR"
  /\ \E ds \in Datasets : X = ds.X /\ y = ds.y /\ ds.y[1] = RInt(0)
  /\ Z = PriorFill(glm.C * N, 0)
  /\ gradFlat = [e \in Evals |-> PriorFill(glm.n_param, 0)]
  /\ wFlat = [e \in Evals |-> ZeroVec(glm.n_param)]
  /\ InitCommon

\* each of the two threads makes one call, whenever it likes
ConcCall(e, w) ==
  /\ callId[e] = 0
  /\ Call(e, w)

NextConc ==
  \/ \E e \in Evals : \E w \in ConcWeights : ConcCall(e, w)
  \/ \E e \in Evals : ResetLossVal(e)
  \/ \E e \in Evals : UpdateHost(e)
  \/ \E e \in Evals : StreamSynchronize(e)
  \/ \E e \in Evals : Return(e)
  \/ \E e \in Evals : ExecKernel(e)

SpecConc == InitConc /\ [][NextConc]_vars

(***************************************************************************)
(* linearFwd, getLossAndDZ and linearBwd applied directly (launch, then    *)
(* the stream drained), on the buffers of call slot 1.                     *)
(***************************************************************************)
OpRec(name, setZero) ==
  [op |-> name, setZero |-> setZero, W |-> wFlat[1], Z |-> Z, G |-> gradFlat[1],
   loss |-> dev_scalar[1]]

Apply(ks, name, setZero) ==
  /\ Len(ops) < MaxOps
  /\ \E m \in { RunStream(ks, Mem(1), glm, N, ordX) } :
         /\ Z' = m.Z
         /\ X' = m.X
         /\ y' = m.y
         /\ wFlat' = [wFlat EXCEPT ![1] = m.W]
         /\ gradFlat' = [gradFlat EXCEPT ![1] = m.G]
         /\ dev_scalar' = [dev_scalar EXCEPT ![1] = m.loss]
  /\ ops' = Append(ops, OpRec(name, setZero))
  /\ UNCHANGED << shapeVars, lossVal, loss_host, result, pc, stream, histVars >>

DoLinearFwd == Apply(linearFwd(Xview(glm, N, ordX), Wview(glm)), "linearFwd", FALSE)

DoGetLossAndDZ == Apply(getLossAndDZ, "getLossAndDZ", FALSE)

DoLinearBwd(setZero) ==
  Apply(linearBwd(Gview(glm), Xview(glm, N, ordX), setZero), "linearBwd", setZero)

InitShape(shapes) ==
  /\ \E sh \in shapes : \E fit \in BOOLEAN :
       /\ glm = GLMDims(sh[1], sh[3], fit)
       /\ N = sh[2]
  /\ ordX \in (IF N > 1 /\ glm.D > 1 THEN Orders ELSE {"COL_MAJOR"})
  /\ X \in [1..(N * glm.D) -> XVals]

\* inputs of linearFwd: W, X and whatever Z held before
InitFwd ==
  /\ InitShape(FwdShapes)
  /\ y = [i \in 1..N |-> RInt(0)]
  /\ \E p \in {0, 1} : Z = PriorFill(glm.C * N, p)
  /\ gradFlat = [e \in Evals |-> PriorFill(glm.n_param, 0)]
  /\ \E w \in Weights : wFlat = [e \in Evals |-> w]
  /\ InitCommon

SpecFwd == InitFwd /\ [][DoLinearFwd]_vars

\* inputs of getLossAndDZ: y and the pre-activations in Z
InitLoss ==
  /\ \E sh \in Shapes : glm = GLMDims(sh[1], sh[3], FALSE) /\ N = sh[2]
  /\ ordX = "COL_MAJOR"
  /\ X = ZeroVec(N * glm.D)
  /\ y \in [1..N -> Vals]
  /\ Z \in [1..(glm.C * N) -> Vals]
  /\ gradFlat = [e \in Evals |-> ZeroVec(glm.n_param)]
  /\ wFlat = [e \in Evals |-> ZeroVec(glm.n_param)]
  /\ InitCommon

SpecLoss == InitLoss /\ [][DoGetLossAndDZ]_vars

\* inputs of linearBwd: dZ (held in Z), X and whatever G held before
InitBwd ==
  /\ InitShape(Shapes)
  /\ y = ZeroVec(N)
  /\ Z \in [1..(glm.C * N) -> Vals]
  /\ \E q \in {0, 1} : gradFlat = [e \in Evals |-> PriorFill(glm.n_param, q)]
  /\ wFlat = [e \in Evals |-> ZeroVec(glm.n_param)]
  /\ InitCommon

NextBwd == \E setZero \in BOOLEAN : DoLinearBwd(setZero)

SpecBwd == InitBwd /\ [][NextBwd]_vars

(***************************************************************************)
(* What the evaluation is meant to compute, written from the mathematics.  *)
(***************************************************************************)
XAt(i, d) == X[(IF ordX = "COL_MAJOR" THEN i + d * N ELSE d + i * glm.D) + 1]
WAt(w, c, d) == w[c + d * glm.C + 1]
ZAt(zb, c, i) == zb[c + i * glm.C + 1]

\* pre-activation of class c on sample i under weights w
PreAct(w, c, i) ==
  LET lin == RSum([d \in 1..glm.D |-> RMul(WAt(w, c, d - 1), XAt(i, d - 1))])
  IN  IF glm.fit_intercept THEN RAdd(lin, WAt(w, c, glm.D)) ELSE lin

\* squared-error objective and gradient for C = 1
Resid(w, i) == RSub(PreAct(w, 0, i), y[i + 1])
ExpectedLoss(w) ==
  RMul(ROneOver(N),
       RSum([i \in 1..N |-> RMul(<< 1, 2 >>, RMul(Resid(w, i - 1), Resid(w, i - 1)))]))
ExpectedGradW(w, d) ==
  RMul(ROneOver(N), RSum([i \in 1..N |-> RMul(Resid(w, i - 1), XAt(i - 1, d))]))
ExpectedGradB(w) == RMul(ROneOver(N), RSum([i \in 1..N |-> Resid(w, i - 1)]))

IsPrefix(s, t) == Len(s) <= Len(t) /\ \A i \in 1..Len(s) : s[i] = t[i]
Has(s, x) == \E i \in 1..Len(s) : s[i] = x
Last(s) == s[Len(s)]
Done(e) == pc[e] = "idle" /\ callId[e] > 0

PassOrder ==
  (IF glm.fit_intercept THEN << "fwd_set_bias", "fwd_gemm" >> ELSE << "fwd_gemm" >>)
  \o << "loss_reduce", "loss_dlz" >>
  \o (IF glm.fit_intercept THEN << "bwd_gemm", "bwd_mean" >> ELSE << "bwd_gemm" >>)

IsPass(op) == op # "update_host"

(***************************************************************************)
(* Claims.                                                                 *)
(***************************************************************************)

\* C1: in every loss_grad evaluation the device runs forward, then the loss pass
\* (reduction, then the in-place derivative), then backward; when a loss kernel is
\* next Z holds this call's pre-activations, and when a backward kernel is next Z
\* holds the loss derivative written by this call's loss pass, with no forward
\* write in between.
C1_PassOrder ==
  \A e \in Evals :
    /\ IsPrefix(SelectSeq(devLog[e], IsPass), PassOrder)
    /\ stream[e] # << >> =>
         LET k == Head(stream[e])
         IN  /\ k.op \in {"loss_reduce", "loss_dlz"} => zPhase = "preact" /\ zWriter = callId[e]
             /\ k.op \in {"bwd_gemm", "bwd_mean"} => zPhase = "dZ" /\ zWriter = callId[e]

\* a second evaluation has run its backward pass over a Z the first one had left as dZ
C1_Witness ==
  /\ calls = 2
  /\ glm.fit_intercept
  /\ Has(devLog[1], "bwd_mean")

\* C2: the scalar a bound-objective call returns is the loss its own loss pass reduced:
\* when the barrier has returned the stream is drained, the copy ran after the
\* reduction, and the host copy (and so the returned value) equals the device scalar
\* and the loss at the weights of this call.
C2_ReturnedLoss ==
  \A e \in Evals :
    /\ pc[e] = "ret" =>
         /\ stream[e] = << >>
         /\ IsPrefix(<< "loss_reduce" >>,
                     SelectSeq(devLog[e], LAMBDA op : op \in {"loss_reduce", "update_host"}))
         /\ Last(devLog[e]) = "update_host"
         /\ loss_host[e] = dev_scalar[e]
         /\ loss_host[e] = ExpectedLoss(wFlat[e])
    /\ Done(e) => result[e] = ExpectedLoss(wFlat[e])

\* a second call has returned a loss that differs from what the host scalar could hold before
C2_Witness ==
  /\ calls = 2
  /\ Done(1)
  /\ result[1] \notin Garbage
  /\ result[1] = dev_scalar[1]

\* the frame every step keeps: the dataset, the dimensions, the weight vector of a
\* call in flight, and the buffers of a call slot that is not in a call
FrameStep ==
  /\ X' = X /\ y' = y /\ glm' = glm /\ N' = N /\ ordX' = ordX
  /\ \A e \in Evals :
       /\ pc[e] # "idle" => wFlat'[e] = wFlat[e]
       /\ pc[e] = "idle" /\ pc'[e] = "idle" =>
            /\ wFlat'[e] = wFlat[e]
            /\ gradFlat'[e] = gradFlat[e]
            /\ dev_scalar'[e] = dev_scalar[e]

\* C3 (as amended): a bound-objective call leaves the flat weight vector, X, y and the
\* dimensions unchanged; what it writes is Z, the gradient vector, the device scalar
\* it was handed, and the bound objective's lossVal view.
C3_Frame == [][FrameStep]_vars

\* C3 as stated: nothing but Z and the gradient vector is modified by a call
C3_Original == [][FrameStep /\ dev_scalar' = dev_scalar /\ lossVal' = lossVal]_vars

\* a call has completed, having re-pointed lossVal and written the device scalar
C3_Witness ==
  /\ Done(1)
  /\ lossVal = [data |-> 1, len |-> 1]
  /\ dev_scalar[1] = result[1]
  /\ dev_scalar[1] # RInt(-1)
  /\ zPhase = "dZ"

SyncAt(h) == { i \in 1..Len(h) : h[i] = "cudaStreamSynchronize" }

\* C4 (as amended): each evaluation makes exactly one cudaStreamSynchronize call; it
\* comes after all kernel launches and immediately after the device-to-host copy of
\* the scalar has been put on the stream, and immediately before the return; when it
\* has returned, the copy has run.
C4_OneBarrier ==
  \A e \in Evals :
    LET h == hostLog[e]
    IN  /\ Cardinality(SyncAt(h)) <= 1
        /\ \A i \in SyncAt(h) :
             /\ i > 1 /\ h[i - 1] = "update_host"
             /\ \A j \in 1..(i - 2) : h[j] = PassOrder[j]
             /\ i - 2 = Len(PassOrder)
             /\ i < Len(h) => (i + 1 = Len(h) /\ h[i + 1] = "return")
        /\ pc[e] = "ret" \/ Done(e) =>
             /\ Cardinality(SyncAt(h)) = 1
             /\ Last(devLog[e]) = "update_host"

\* C4 as stated: the one barrier comes immediately before the copy to host memory
C4_Original ==
  \A e \in Evals :
    Done(e) =>
      /\ Cardinality(SyncAt(hostLog[e])) = 1
      /\ \A i \in SyncAt(hostLog[e]) :
           i < Len(hostLog[e]) /\ hostLog[e][i + 1] = "update_host"

\* a call has returned after its one barrier
C4_Witness ==
  /\ Done(1)
  /\ Last(hostLog[1]) = "return"
  /\ Has(hostLog[1], "cudaStreamSynchronize")

\* C5: nothing stops two evaluations bound to the same Z from being in flight together,
\* and then one's loss or backward kernel can consume Z as last written by the other;
\* this happens only in behaviours where a call started while another was in flight.
C5_CrossReadOnlyIfOverlap == crossRead => overlapped

\* both calls are in flight and one has consumed the other's Z
C5_Witness ==
  /\ crossRead
  /\ overlapped
  /\ \A e \in Evals : InFlight(e)

IsScenario(e) ==
  /\ X = << RInt(1), RInt(2) >>
  /\ y = << RInt(0), RInt(1) >>
  /\ wFlat[e] = << RInt(2), RInt(0) >>

\* C6: for squared error, C = 1 and an intercept, one evaluation leaves the
\* pre-activations w*x_i + b in Z after forward, reduces (1/N) sum 0.5 (z_i - y_i)^2,
\* leaves z_i - y_i in Z after the loss pass, and writes (1/N) sum (z_i - y_i) x_i and
\* (1/N) sum (z_i - y_i) as the feature-weight and bias gradients; for X = [[1],[2]],
\* y = [0,1], W = [2, 0] these are Z = [2,4], 3.25, Z = [2,3], 4.0 and 2.5.
C6_EndToEnd ==
  \A e \in Evals :
    (glm.C = 1 /\ glm.fit_intercept /\ callId[e] > 0 /\ devLog[e] # << >>) =>
      LET w == wFlat[e]
          dl == devLog[e]
      IN  /\ Last(dl) = "fwd_gemm" =>
               /\ \A i \in 0..(N - 1) : ZAt(Z, 0, i) = PreAct(w, 0, i)
               /\ IsScenario(e) => Z = << RInt(2), RInt(4) >>
          /\ Has(dl, "loss_reduce") =>
               /\ dev_scalar[e] = ExpectedLoss(w)
               /\ IsScenario(e) => dev_scalar[e] = << 13, 4 >>
          /\ Has(dl, "loss_dlz") =>
               /\ \A i \in 0..(N - 1) : ZAt(Z, 0, i) = Resid(w, i)
               /\ IsScenario(e) => Z = << RInt(2), RInt(3) >>
          /\ Has(dl, "bwd_gemm") =>
               /\ \A d \in 0..(glm.D - 1) : WAt(gradFlat[e], 0, d) = ExpectedGradW(w, d)
               /\ IsScenario(e) => gradFlat[e][1] = RInt(4)
          /\ Has(dl, "bwd_mean") =>
               /\ WAt(gradFlat[e], 0, glm.D) = ExpectedGradB(w)
               /\ IsScenario(e) => gradFlat[e][2] = << 5, 2 >>
          /\ Done(e) =>
               /\ result[e] = ExpectedLoss(w)
               /\ IsScenario(e) => result[e] = << 13, 4 >>

\* the scenario has been evaluated to the end
C6_Witness ==
  /\ IsScenario(1)
  /\ glm.fit_intercept
  /\ Done(1)
  /\ result[1] = << 13, 4 >>
  /\ gradFlat[1] = << RInt(4), << 5, 2 >> >>
  /\ Z = << RInt(2), RInt(3) >>

\* C7: after linearFwd, whatever Z held before and also when C # N, Z[c][i] is
\* sum_d W[c][d] * X[i][d], plus W[c][D] when there is an intercept (the bias of class
\* c, the same in every sample column); a second forward call with the same W and X
\* leaves Z as the first one did.
C7_Forward ==
  ops # << >> =>
    /\ \A c \in 0..(glm.C - 1) : \A i \in 0..(N - 1) :
         ZAt(Z, c, i) = PreAct(wFlat[1], c, i)
    /\ Len(ops) >= 2 => Z = Last(ops).Z

\* forward with an intercept over a non-square Z that held something else, the bias
\* being non-zero
C7_Witness ==
  /\ Len(ops) = 1
  /\ glm.fit_intercept
  /\ glm.C # N
  /\ \E c \in 0..(glm.C - 1) : WAt(wFlat[1], c, glm.D) # RInt(0)
  /\ \E p \in 1..Len(Z) : ops[1].Z[p] # RInt(0) /\ ops[1].Z[p] # Z[p]

\* C8: the default getLossAndDZ returns (1/N) * sum_i lossValue(y_i, z_i) over the values
\* z_i that Z held at entry, and leaves lossDerivative(y_i, z_i) of those same values in
\* Z[i], i in 0..N-1.
C8_TwoPhase ==
  ops # << >> =>
    LET z0 == Last(ops).Z
    IN  /\ dev_scalar[1] = RMul(ROneOver(N), RSum([i \in 1..N |-> lz(y[i], z0[i])]))
        /\ \A i \in 1..N : Z[i] = dlz(y[i], z0[i])

\* the loss pass has run over two samples, changing Z and reducing a non-zero loss
C8_Witness ==
  /\ Len(ops) = 1
  /\ N = 2
  /\ dev_scalar[1] # RInt(0)
  /\ \A i \in 1..N : Z[i] # ops[1].Z[i]

\* C9: after linearBwd with an intercept the bias column of G is the per-class mean of dZ
\* over the N samples, for setZero true and false and whatever G held before.
C9_BiasMean ==
  (ops # << >> /\ glm.fit_intercept) =>
    \A c \in 0..(glm.C - 1) :
      WAt(gradFlat[1], c, glm.D) =
        RMul(ROneOver(N), RSum([i \in 1..N |-> ZAt(Z, c, i - 1)]))

\* an accumulating backward call has replaced a non-zero bias gradient by a different mean
C9_Witness ==
  /\ Len(ops) = 1
  /\ glm.fit_intercept
  /\ ~ops[1].setZero
  /\ \E c \in 0..(glm.C - 1) :
       /\ WAt(ops[1].G, c, glm.D) # RInt(0)
       /\ WAt(gradFlat[1], c, glm.D) # RInt(0)
       /\ WAt(gradFlat[1], c, glm.D) # WAt(ops[1].G, c, glm.D)

\* positions of the feature-weight block of G
FeatPos == 1..(glm.C * glm.D)
TwoBwd(sz) ==
  /\ Len(ops) >= 2
  /\ ops[Len(ops)].setZero = sz
  /\ ops[Len(ops) - 1].setZero = sz

\* C10 (as amended): two consecutive linearBwd calls on the same G with the same dZ and X:
\* with setZero = true G is the same after both; with setZero = false the second call
\* adds to the feature-weight block what the first one added, G2 = G1 + (G1 - G0), which
\* is twice the block after the first call when the block was zero before the first call.
C10_TwoCalls ==
  LET G0 == ops[Len(ops) - 1].G
      G1 == ops[Len(ops)].G
      G2 == gradFlat[1]
  IN  /\ TwoBwd(TRUE) => G2 = G1
      /\ TwoBwd(FALSE) =>
           \A p \in FeatPos :
             /\ G2[p] = RAdd(G1[p], RSub(G1[p], G0[p]))
             /\ G0[p] = RInt(0) => G2[p] = RMul(RInt(2), G1[p])

\* C10 as stated: with setZero = false the feature-weight block after the second call is
\* twice the block after the first call
C10_Original ==
  LET G1 == ops[Len(ops)].G
      G2 == gradFlat[1]
  IN  /\ TwoBwd(TRUE) => G2 = G1
      /\ TwoBwd(FALSE) => \A p \in FeatPos : G2[p] = RMul(RInt(2), G1[p])

\* two accumulating calls from a zeroed G have doubled a non-zero feature-weight gradient
C10_Witness ==
  /\ TwoBwd(FALSE)
  /\ \A p \in FeatPos : ops[1].G[p] = RInt(0)
  /\ \E p \in FeatPos : gradFlat[1][p] # RInt(0) /\ gradFlat[1][p] = RMul(RInt(2), ops[2].G[p])

====
